---- MODULE Spec2Model ----
(***************************************************************************)
(* Model of TelegramAccountManager (src/main.py): account start-up, the    *)
(* backlog pass, the live handlers, the reaction dispatcher                *)
(* react_to_message and the shutdown loop.                                 *)
(*                                                                         *)
(* The program is one asyncio event loop.  A step of the model is the code *)
(* a coroutine runs between two suspension points (await), so two steps of *)
(* different coroutines never overlap but may interleave in any order.     *)
(***************************************************************************)
EXTENDS Integers, Sequences, FiniteSets, TLC

\* ------------------------------------------------------------------ bounds
MaxSessions == 2      \* accounts (session files plus accounts added)
MaxHistory == 2       \* messages on the channel when the program starts
MaxPosts == 1         \* messages posted while the program runs
MaxVocab == 2         \* length of config['reactions']
FairHistory == 1      \* messages on the channel at the start, for FairSpec
LiveVocab == 1        \* the four bounds of LiveSpec
LiveSessions == 1
LiveHistory == 1
LivePosts == 2

\* ------------------------------------------------------- program constants
max_retries == 3
retry_delay == 5
HistoryLimit == 100

VARIABLES
    reactions,           \* self.reactions: sequence of symbols
    files,               \* *.session files of os.listdir still to load
    clients,             \* self.clients: sequence of started sessions
    channel_id,          \* self.channel_id: "None" or "resolved"
    processed_messages,  \* self.processed_messages
    mainpc,              \* position of run()
    hist,                \* messages the history iterator has still to yield
    stopIdx,             \* position of the loop of the finally block
    task,                \* one dispatch frame per coroutine
    handlers,            \* sessions with a registered message_handler
    stopCalled,          \* sessions on which client.stop() was called
    released,            \* sessions whose client.stop() returned normally
    chan,                \* number of messages on the channel (ids 1..chan)
    posts,               \* messages posted since the program started
    entered,             \* per message id: times the reaction loop was entered
    backlogDone,         \* process_old_messages has returned
    resolveFailed,       \* get_channel_id returned None
    retrievalFailed,     \* the history iterator raised
    skipped,             \* ids the iterator had not yielded when it raised
    doneAtFail,          \* processed_messages when the iterator raised
    resolves,            \* calls of get_channel_id so far
    fetched,             \* the messages the history iterator was started with
    early                \* ids posted while process_old_messages was running

vars == <<reactions, files, clients, channel_id, processed_messages, mainpc,
          hist, stopIdx, task, handlers, stopCalled, released, chan, posts, entered,
          backlogDone, resolveFailed, retrievalFailed, skipped,
          doneAtFail, resolves, fetched, early>>

Min(a, b) == IF a < b THEN a ELSE b

Msgs == 1..(MaxHistory + MaxPosts)
Sessions == 1..MaxSessions

\* The coroutine of run() and one message_handler invocation per (session, message).
Main == <<0, 0>>
HandlerTasks == Sessions \X Msgs
Tasks == {Main} \cup HandlerTasks

ClientSet == 1..Len(clients)

\* ------------------------------------------------------- dispatch frames
\* pc: "idle"    no invocation
\*     "jitter"  handle_new_message sleeps 1-3 s
\*     "send"    awaiting client.send_reaction
\*     "pause"   sleeping 2-4 s after a reaction
\*     "backoff" sleeping retry_delay * retries
\*     "acct"    sleeping 4-7 s after a session
\*     "ret"     react_to_message has returned
\* m, ci, retries, sel, idx are the locals message_id, the position of
\* client in self.clients, retries, selected_reactions and the position of
\* reaction in it.  subs, oks, tries, pauses and slept record what the
\* current session has done: send_reaction calls, calls that returned, tries
\* started, inter-reaction pauses of the current try, and backoff sleeps;
\* served records how each session of this call ended so far.
IdleFrame ==
    [pc |-> "idle", m |-> 0, ci |-> 0, retries |-> 0, sel |-> <<>>, idx |-> 0,
     subs |-> 0, oks |-> 0, tries |-> 0, pauses |-> 0, slept |-> <<>>,
     served |-> <<>>]

JitterFrame(m) == [IdleFrame EXCEPT !.pc = "jitter", !.m = m]

RetFrame(m) == [IdleFrame EXCEPT !.pc = "ret", !.m = m]

\* for client in self.clients: retries = 0
SessionFrame(m, ci, served) ==
    [IdleFrame EXCEPT !.m = m, !.ci = ci, !.served = served]

\* random.randint(1, 2)
RandInt == 1..2

\* random.sample(population, k): k distinct positions, in any order
Sample(population, k) ==
    {s \in [1..k -> 1..Len(population)] : \A i, j \in 1..k : i # j => s[i] # s[j]}

\* variant: the delay does not grow with the retry number
BackoffFlat(retries) == retry_delay

\* self.retry_delay * retries
Backoff(retries) == retry_delay * retries

\* variant: the comparison lets one more try through
RetriesLeftInclusive(retries) == retries <= max_retries

\* while retries < self.max_retries / if retries < self.max_retries
RetriesLeft(retries) == retries < max_retries

\* variant: the exception is caught inside the for loop, which goes on with
\* the next reaction of the subset
FailContinues(f) ==
    IF f.pc = "send" /\ f.idx < Len(f.sel)
    THEN [f EXCEPT !.idx = @ + 1, !.subs = @ + 1]
    ELSE LET r == f.retries + 1 IN
         IF RetriesLeft(r)
         THEN [f EXCEPT !.retries = r, !.pc = "backoff",
                        !.slept = Append(@, Backoff(r))]
         ELSE [f EXCEPT !.retries = r, !.pc = "acct",
                        !.served = Append(@, "failed")]

\* variant: the next try starts without the backoff sleep
FailRetriesAtOnce(f) ==
    LET r == f.retries + 1 IN
    IF RetriesLeft(r)
    THEN [f EXCEPT !.retries = r, !.pc = "send", !.idx = 1, !.subs = @ + 1,
                   !.tries = @ + 1]
    ELSE [f EXCEPT !.retries = r, !.pc = "acct", !.served = Append(@, "failed")]

\* variant: the exception leaves react_to_message
FailPropagates(f) == [f EXCEPT !.pc = "raised"]

\* except Exception: retries += 1, then the backoff sleep or the failure report
Fail(f) ==
    LET r == f.retries + 1 IN
    IF RetriesLeft(r)
    THEN [f EXCEPT !.retries = r, !.pc = "backoff",
                   !.slept = Append(@, Backoff(r))]
    ELSE [f EXCEPT !.retries = r, !.pc = "acct", !.served = Append(@, "failed")]

\* One pass of the while body up to its first suspension: choose the subset
\* and issue the first send_reaction; random.sample raises ValueError when
\* num_reactions exceeds the length of self.reactions.
StartTry(f) ==
    LET g == [f EXCEPT !.tries = @ + 1, !.pauses = 0] IN
    UNION { IF num > Len(reactions)
            THEN {Fail(g)}
            ELSE {[g EXCEPT !.pc = "send", !.sel = [i \in 1..num |-> reactions[s[i]]],
                            !.idx = 1, !.subs = @ + 1] : s \in Sample(reactions, num)}
          : num \in RandInt }


\* variant: the membership test never succeeds
NeverProcessed(m) == FALSE

\* if message_id in self.processed_messages: return
AlreadyProcessed(m) == m \in processed_messages

\* variant: the id is not added
MarkProcessedForgets(m) == processed_messages

\* variant: the set is replaced by the new id
MarkProcessedReplaces(m) == {m}

\* self.processed_messages.add(message_id)
MarkProcessed(m) == processed_messages \cup {m}

\* variant: the sessions are visited from the last one
FirstSessionLast(m) ==
    IF clients = <<>> THEN {RetFrame(m)}
    ELSE StartTry(SessionFrame(m, Len(clients), <<>>))

\* for client in self.clients: the body for the first session, up to its
\* first suspension
FirstSession(m) ==
    IF clients = <<>> THEN {RetFrame(m)} ELSE StartTry(SessionFrame(m, 1, <<>>))

\* variant: a session that exhausted its retries ends the whole call
NextSessionAborts(f) ==
    IF f.ci < Len(clients) /\ f.served[f.ci] = "ok"
    THEN StartTry(SessionFrame(f.m, f.ci + 1, f.served))
    ELSE {RetFrame(f.m)}

\* after the 4-7 s sleep: the next session of self.clients, or the return
NextSession(f) ==
    IF f.ci < Len(clients)
    THEN StartTry(SessionFrame(f.m, f.ci + 1, f.served))
    ELSE {RetFrame(f.m)}

\* variant: the backlog loop does not await react_to_message
MainAfterNoAwait(t, f) == IF t = Main THEN "gap" ELSE mainpc

\* run() resumes after `await self.react_to_message(...)` of the backlog loop
MainAfter(t, f) ==
    IF t = Main THEN (IF f.pc = "ret" THEN "gap" ELSE "dispatch") ELSE mainpc

SetFrame(t, f) ==
    /\ task' = [task EXCEPT ![t] = f]
    /\ mainpc' = MainAfter(t, f)

\* react_to_message(m) called by coroutine t, up to its first suspension
Enter(t, m) ==
    IF AlreadyProcessed(m)
    THEN /\ SetFrame(t, RetFrame(m))
         /\ UNCHANGED <<processed_messages, entered>>
    ELSE /\ processed_messages' = MarkProcessed(m)
         /\ entered' = [entered EXCEPT ![m] = @ + 1]
         /\ \E f \in FirstSession(m) : SetFrame(t, f)

Running(t) == mainpc # "end" /\ (t = Main => mainpc = "dispatch")

Frozen == <<reactions, files, clients, channel_id, hist, stopIdx, handlers,
            stopCalled, released, chan, posts, backlogDone, resolveFailed,
            retrievalFailed, skipped, doneAtFail, resolves, fetched, early>>

\* client.send_reaction returns: the 2-4 s sleep starts
SendReturns(t) ==
    /\ Running(t) /\ task[t].pc = "send"
    /\ SetFrame(t, [task[t] EXCEPT !.pc = "pause", !.oks = @ + 1])
    /\ UNCHANGED <<processed_messages, entered>>
    /\ UNCHANGED Frozen

\* client.send_reaction raises
SendRaises(t) ==
    /\ Running(t) /\ task[t].pc = "send"
    /\ SetFrame(t, Fail(task[t]))
    /\ UNCHANGED <<processed_messages, entered>>
    /\ UNCHANGED Frozen

\* the 2-4 s sleep ends: the next reaction of the subset, or break
AfterPause(f) ==
    IF f.idx < Len(f.sel)
    THEN [f EXCEPT !.pc = "send", !.idx = @ + 1, !.subs = @ + 1, !.pauses = @ + 1]
    ELSE [f EXCEPT !.pc = "acct", !.served = Append(@, "ok"), !.pauses = @ + 1]

WakePause(t) ==
    /\ Running(t) /\ task[t].pc = "pause"
    /\ SetFrame(t, AfterPause(task[t]))
    /\ UNCHANGED <<processed_messages, entered>>
    /\ UNCHANGED Frozen

\* the backoff sleep ends: the next try
WakeBackoff(t) ==
    /\ Running(t) /\ task[t].pc = "backoff"
    /\ \E f \in StartTry(task[t]) : SetFrame(t, f)
    /\ UNCHANGED <<processed_messages, entered>>
    /\ UNCHANGED Frozen

\* the 4-7 s sleep ends
WakeAcct(t) ==
    /\ Running(t) /\ task[t].pc = "acct"
    /\ \E f \in NextSession(task[t]) : SetFrame(t, f)
    /\ UNCHANGED <<processed_messages, entered>>
    /\ UNCHANGED Frozen

\* handle_new_message: the 1-3 s sleep ends, react_to_message is called
WakeJitter(t) ==
    /\ t \in HandlerTasks
    /\ Running(t) /\ task[t].pc = "jitter"
    /\ Enter(t, task[t].m)
    /\ UNCHANGED Frozen

\* ------------------------------------------------------------------ run()
SeqSet(q) == {q[i] : i \in 1..Len(q)}

\* get_channel_id: the id, or None when get_chat or int() raised
GetChannelId == {"resolved", "None"}

\* variant: the result of initialize_clients is not looked at
RunAfterInitIgnores(ok, cl) ==
    IF cl = <<>> THEN "stop" ELSE "fetch"

\* run() after initialize_clients has returned ok with the sessions cl:
\* lines 140-147
RunAfterInit(ok, cl) ==
    IF ~ok THEN "stop"
    ELSE IF cl = <<>> THEN "stop"
    ELSE "fetch"

\* client.start() returned and the client was appended: resolve the channel
\* when it is not resolved yet; False is returned when that fails, and the
\* loop at position goon goes on otherwise
Started(goon) ==
    /\ clients' = Append(clients, Len(clients) + 1)
    /\ files' = IF mainpc = "load" THEN files - 1 ELSE files
    /\ IF channel_id = "None"
       THEN \E id \in GetChannelId :
               /\ channel_id' = id
               /\ resolveFailed' = (id = "None")
               /\ resolves' = resolves + 1
               /\ mainpc' = IF id = "None"
                            THEN RunAfterInit(FALSE, clients')
                            ELSE goon
       ELSE /\ mainpc' = goon
            /\ UNCHANGED <<channel_id, resolveFailed, resolves>>

InitFrozen == <<reactions, processed_messages, hist, stopIdx, task,
                handlers, stopCalled, released, chan, posts, entered,
                backlogDone, retrievalFailed, skipped, doneAtFail, fetched,
                early>>

\* the loop over os.listdir('sessions'): one session file
LoadSession ==
    /\ mainpc = "load" /\ files > 0
    /\ \/ Started("load")
       \/ \* client.start() raises: nothing catches it before run()'s finally
          /\ mainpc' = "stop"
          /\ UNCHANGED <<files, clients, channel_id, resolveFailed, resolves>>
    /\ UNCHANGED InitFrozen

\* the loop over the session files ends
ListDone ==
    /\ mainpc = "load" /\ files = 0
    /\ mainpc' = "add"
    /\ UNCHANGED <<files, clients, channel_id, resolveFailed, resolves>>
    /\ UNCHANGED InitFrozen

\* the while loop: add_account is 'y' (forced when there is no client)
AddAccountUpTo(n) ==
    /\ mainpc = "add" /\ Len(clients) < n
    /\ \/ Started("add")
       \/ \* client.start() raises: except Exception, break, return True
          /\ mainpc' = RunAfterInit(TRUE, clients)
          /\ UNCHANGED <<files, clients, channel_id, resolveFailed, resolves>>
    /\ UNCHANGED InitFrozen

AddAccount == AddAccountUpTo(MaxSessions)

\* the while loop ends: the answer is not 'y', or KeyboardInterrupt
DeclineAdd ==
    /\ mainpc = "add"
    /\ mainpc' = RunAfterInit(TRUE, clients)
    /\ UNCHANGED <<files, clients, channel_id, resolveFailed, resolves>>
    /\ UNCHANGED InitFrozen

\* --------------------------------------------------- process_old_messages
\* client.get_chat_history(self.channel_id, limit=100): newest first
History == [i \in 1..Min(chan, HistoryLimit) |-> chan - i + 1]

\* variant: the error of the history iterator is not caught
ProcessOldMessagesPropagates(failed) == IF failed THEN "stop" ELSE "live"

\* variant: the backlog pass is started again after an error
ProcessOldMessagesRestarts(failed) == IF failed THEN "fetch" ELSE "live"

\* process_old_messages returns (after an error or not): run() registers a
\* handler on every client and waits
ProcessOldMessagesEnds(failed) == "live"

\* for client in self.clients: @client.on_message(...)
RegisterHandlers == ClientSet

BacklogEnds(failed) ==
    /\ mainpc' = ProcessOldMessagesEnds(failed)
    /\ backlogDone' = (mainpc' = "live")
    /\ handlers' = IF mainpc' = "live" THEN RegisterHandlers ELSE handlers
    /\ hist' = <<>>

BacklogFrozen == <<reactions, files, clients, channel_id, stopIdx, stopCalled,
                   released, chan, posts, resolveFailed, resolves, early>>

\* the first message of the history arrives and is dispatched, or the
\* history is empty
FetchHistory ==
    /\ mainpc = "fetch"
    /\ IF History = <<>>
       THEN /\ BacklogEnds(FALSE)
            /\ UNCHANGED <<task, processed_messages, entered>>
       ELSE /\ hist' = Tail(History)
            /\ Enter(Main, Head(History))
            /\ UNCHANGED <<backlogDone, handlers>>
    /\ fetched' = History
    /\ UNCHANGED <<retrievalFailed, skipped, doneAtFail>>
    /\ UNCHANGED BacklogFrozen

\* the 5-8 s sleep ends: the next message of the history, or its end
NextMessage ==
    /\ mainpc = "gap"
    /\ IF hist = <<>>
       THEN /\ BacklogEnds(FALSE)
            /\ UNCHANGED <<task, processed_messages, entered>>
       ELSE /\ hist' = Tail(hist)
            /\ Enter(Main, Head(hist))
            /\ UNCHANGED <<backlogDone, handlers>>
    /\ UNCHANGED <<retrievalFailed, skipped, doneAtFail, fetched>>
    /\ UNCHANGED BacklogFrozen

\* the history iterator raises: except Exception of process_old_messages
HistoryRaises ==
    /\ mainpc \in {"fetch", "gap"}
    /\ retrievalFailed' = TRUE
    /\ skipped' = SeqSet(IF mainpc = "fetch" THEN History ELSE hist)
    /\ doneAtFail' = processed_messages
    /\ BacklogEnds(TRUE)
    /\ UNCHANGED <<task, processed_messages, entered, fetched>>
    /\ UNCHANGED BacklogFrozen

\* ----------------------------------------------------------- live phase
\* variant: the handler is registered as soon as the session is started
SubscribedAtStart(s) == s \in ClientSet /\ s \notin stopCalled

\* variant: a session's dispatcher has one worker, busy until the handler
\* it runs has returned
SubscribedWhenFree(s) ==
    /\ s \in handlers /\ s \notin stopCalled
    /\ \A m \in Msgs : task[<<s, m>>].pc \in {"idle", "ret"}

\* variant: a started session delivers to handlers registered later
SubscribedOnceStarted(s) == s \in ClientSet

\* a handler of session s is called for a new message
Subscribed(s) == s \in handlers /\ s \notin stopCalled

\* a message is posted on the channel; each subscribed session's handler
\* starts with the 1-3 s sleep of handle_new_message
PostUpTo(n) ==
    /\ posts < n
    /\ mainpc \in {"fetch", "dispatch", "gap", "live", "stop"}
    /\ chan' = chan + 1
    /\ posts' = posts + 1
    /\ early' = IF mainpc \in {"fetch", "dispatch", "gap"}
                THEN early \cup {chan + 1} ELSE early
    /\ task' = [t \in Tasks |->
                  IF t \in HandlerTasks /\ t[2] = chan + 1 /\ Subscribed(t[1])
                  THEN JitterFrame(chan + 1) ELSE task[t]]
    /\ UNCHANGED <<reactions, files, clients, channel_id, processed_messages,
                   mainpc, hist, stopIdx, handlers, stopCalled, released,
                   entered, backlogDone, resolveFailed, retrievalFailed,
                   skipped, doneAtFail, resolves, fetched>>

Post == PostUpTo(MaxPosts)

\* ------------------------------------------------------------- shutdown
\* KeyboardInterrupt or cancellation at a suspension point of run(): the
\* finally block runs; a backlog dispatch in progress is abandoned
Interrupt ==
    /\ mainpc \in {"fetch", "dispatch", "gap", "live"}
    /\ mainpc' = "stop"
    /\ task' = [task EXCEPT ![Main] = IdleFrame]
    /\ UNCHANGED <<reactions, files, clients, channel_id, processed_messages,
                   hist, stopIdx, handlers, stopCalled, released, chan, posts,
                   entered, backlogDone, resolveFailed, retrievalFailed,
                   skipped, doneAtFail, resolves, fetched, early>>

\* client.stop() raised: what the finally loop does next
StopRaised(i) == "end"

\* run() is over: asyncio.run cancels the coroutines still pending
AtEnd(pc) == IF pc = "end" THEN [t \in Tasks |-> IdleFrame] ELSE task

\* finally: for client in self.clients: await client.stop()
StopClient ==
    /\ mainpc = "stop" /\ stopIdx <= Len(clients)
    /\ stopCalled' = stopCalled \cup {stopIdx}
    /\ \/ /\ released' = released \cup {stopIdx}
          /\ stopIdx' = stopIdx + 1
          /\ UNCHANGED mainpc
       \/ /\ mainpc' = StopRaised(stopIdx)
          /\ stopIdx' = IF mainpc' = "stop" THEN stopIdx + 1 ELSE stopIdx
          /\ UNCHANGED released
    /\ task' = AtEnd(mainpc')
    /\ UNCHANGED <<reactions, files, clients, channel_id, processed_messages,
                   hist, handlers, chan, posts, entered, backlogDone,
                   resolveFailed, retrievalFailed, skipped, doneAtFail,
                   resolves, fetched, early>>

\* the finally loop is over: run() returns
RunEnds ==
    /\ mainpc = "stop" /\ stopIdx > Len(clients)
    /\ mainpc' = "end"
    /\ task' = AtEnd(mainpc')
    /\ UNCHANGED <<reactions, files, clients, channel_id, processed_messages,
                   hist, stopIdx, handlers, stopCalled, released, chan, posts,
                   entered, backlogDone, resolveFailed, retrievalFailed,
                   skipped, doneAtFail, resolves, fetched, early>>

\* ------------------------------------------------------------ the system
\* the object after __init__, with at most nv reactions in the
\* configuration, ns session files and nh messages on the channel
InitUpTo(nv, ns, nh) ==
    /\ reactions \in {[i \in 1..n |-> i] : n \in 1..nv}
    /\ files \in 0..ns
    /\ chan \in 0..nh
    /\ posts = 0
    /\ clients = <<>>
    /\ channel_id = "None"
    /\ processed_messages = {}
    /\ mainpc = "load"
    /\ hist = <<>>
    /\ stopIdx = 1
    /\ task = [t \in Tasks |-> IdleFrame]
    /\ handlers = {}
    /\ stopCalled = {}
    /\ released = {}
    /\ entered = [m \in Msgs |-> 0]
    /\ backlogDone = FALSE
    /\ resolveFailed = FALSE
    /\ retrievalFailed = FALSE
    /\ skipped = {}
    /\ doneAtFail = {}
    /\ resolves = 0
    /\ fetched = <<>>
    /\ early = {}

Init == InitUpTo(MaxVocab, MaxSessions, MaxHistory)

Next ==
    \/ LoadSession
    \/ ListDone
    \/ AddAccount
    \/ DeclineAdd
    \/ FetchHistory
    \/ NextMessage
    \/ HistoryRaises
    \/ Post
    \/ Interrupt
    \/ StopClient
    \/ RunEnds
    \/ \E t \in Tasks : SendReturns(t)
    \/ \E t \in Tasks : SendRaises(t)
    \/ \E t \in Tasks : WakePause(t)
    \/ \E t \in Tasks : WakeBackoff(t)
    \/ \E t \in Tasks : WakeAcct(t)
    \/ \E t \in Tasks : WakeJitter(t)

Spec == Init /\ [][Next]_vars

\* what the event loop does for coroutine t: a pending send_reaction
\* completes or fails, a sleep that was started ends
TaskStep(t) ==
    \/ SendReturns(t)
    \/ SendRaises(t)
    \/ WakePause(t)
    \/ WakeBackoff(t)
    \/ WakeAcct(t)
    \/ WakeJitter(t)

\* the event loop resumes every coroutine whose await is over
Fairness == \A t \in Tasks : WF_vars(TaskStep(t))

\* the program under a fair event loop, with a shorter history
FairInit == InitUpTo(MaxVocab, MaxSessions, FairHistory)

FairSpec == FairInit /\ [][Next]_vars /\ Fairness

\* the program with one session and two posts, for what two live messages
\* in flight do to each other
LiveInit == InitUpTo(LiveVocab, LiveSessions, LiveHistory)

LiveNext ==
    \/ LoadSession
    \/ ListDone
    \/ AddAccountUpTo(LiveSessions)
    \/ DeclineAdd
    \/ FetchHistory
    \/ NextMessage
    \/ HistoryRaises
    \/ PostUpTo(LivePosts)
    \/ Interrupt
    \/ StopClient
    \/ RunEnds
    \/ \E t \in Tasks : TaskStep(t)

LiveSpec == LiveInit /\ [][LiveNext]_vars /\ Fairness

TypeOK ==
    /\ mainpc \in {"load", "add", "fetch", "dispatch", "gap", "live", "stop", "end"}
    /\ processed_messages \subseteq Msgs
    /\ \A t \in Tasks : task[t].pc \in {"idle", "jitter", "send", "pause", "backoff", "acct", "ret"}

\* ------------------------------------------------------------ properties
\* C1: for every message id the per-session reaction loop of
\* react_to_message is entered at most once in a run, whatever the
\* interleaving of the backlog pass and the handler invocations.
AtMostOnceDispatch == \A m \in Msgs : entered[m] <= 1

\* two handler invocations for one message have both called
\* react_to_message, and the loop was entered once
AtMostOnceWitness ==
    \E m \in Msgs : \E s1, s2 \in Sessions :
        /\ s1 # s2
        /\ entered[m] = 1
        /\ task[<<s1, m>>].pc = "ret"
        /\ task[<<s2, m>>].pc = "ret"

\* C2: when a session of a dispatch is finished, the number of reactions
\* submitted through it for the message is in [1, min(2, |vocabulary|)],
\* whatever submissions succeeded or failed across its tries.
BoundedSubsetSize ==
    \A t \in Tasks :
        task[t].pc = "acct" => task[t].subs \in 1..Min(2, Len(reactions))

\* C3: a session whose every submission fails gets exactly 3 tries, with
\* backoff sleeps of 5 then 10 seconds between them and none after the third.
RetryBound ==
    \A t \in Tasks :
        LET f == task[t] IN
        /\ (f.pc = "acct" /\ f.oks = 0) =>
               /\ f.tries = 3
               /\ f.slept = <<5, 10>>
               /\ f.served[f.ci] = "failed"
        /\ (f.pc = "backoff") =>
               /\ f.tries = Len(f.slept)
               /\ f.tries < 3
               /\ f.slept[f.tries] = 5 * f.tries

\* three submissions of one session have failed, one per try
RetryBoundWitness ==
    \E t \in Tasks :
        /\ task[t].pc = "acct" /\ task[t].oks = 0 /\ task[t].subs = 3
        /\ task[t].slept = <<5, 10>>

\* C4: a session whose submissions always fail does not change what the
\* other sessions of the same dispatch receive: every session of
\* self.clients is served in turn, each starts with a fresh try, a session
\* with no failure of its own submits its whole subset with one pause per
\* reaction, and the call returns only after the last session.
SessionServed(f) ==
    /\ f.pc \in {"send", "pause", "backoff"} => Len(f.served) = f.ci - 1
    /\ f.pc = "acct" => Len(f.served) = f.ci
    /\ (f.pc = "acct" /\ f.retries = 0) =>
           /\ f.served[f.ci] = "ok"
           /\ f.tries = 1
           /\ f.subs = Len(f.sel)
           /\ f.oks = Len(f.sel)
           /\ f.pauses = Len(f.sel)
           /\ f.slept = <<>>

SessionStep(f, g) ==
    (f.pc = "acct" /\ g.pc # "idle") =>
        IF f.ci < Len(clients)
        THEN /\ g.m = f.m /\ g.ci = f.ci + 1 /\ g.tries = 1
             /\ g.served = f.served
             /\ \/ g.pc = "send" /\ g.retries = 0 /\ g.subs = 1
                \/ g.pc = "backoff" /\ g.retries = 1 /\ g.subs = 0
        ELSE g = RetFrame(f.m)

PartialFailureIsolation ==
    /\ [](\A t \in Tasks : SessionServed(task[t]))
    /\ [][\A t \in Tasks : task'[t] # task[t] => SessionStep(task[t], task'[t])]_vars

\* the first session exhausted its retries and the second one went through
\* without a failure
PartialFailureWitness ==
    \E t \in Tasks :
        /\ task[t].pc = "acct" /\ task[t].ci = 2
        /\ task[t].served = <<"failed", "ok">>
        /\ task[t].retries = 0

\* C5: no handler invocation exists, and so no react_to_message call from
\* the live path starts, before process_old_messages has returned.
BacklogBeforeLive ==
    /\ handlers # {} => backlogDone
    /\ \A t \in HandlerTasks : task[t].pc # "idle" => backlogDone

\* a handler invocation is dispatching while the backlog pass has processed
\* a message
BacklogBeforeLiveWitness ==
    \E t \in HandlerTasks :
        /\ task[t].pc = "send"
        /\ processed_messages \ {task[t].m} # {}

\* C6: when run() is over, client.stop() was called on every session of
\* self.clients, also when the stop of an earlier session failed.
BestEffortRelease == mainpc = "end" => stopCalled = ClientSet

\* C7: after a failed channel resolution the program fetches no history,
\* registers no handler, submits nothing, and stops every session it started.
ResolutionFailureFatal ==
    resolveFailed =>
        /\ mainpc \in {"stop", "end"}
        /\ ~backlogDone /\ ~retrievalFailed
        /\ handlers = {}
        /\ processed_messages = {}
        /\ \A t \in Tasks : task[t] = IdleFrame
        /\ clients # <<>>
        /\ mainpc = "end" => stopCalled = ClientSet

ResolutionFailureWitness ==
    resolveFailed /\ mainpc = "end" /\ stopCalled = {1} /\ clients = <<1>>

\* C8: react_to_message called with an id already in processed_messages
\* returns at once: no submission, no sleep, processed_messages unchanged.
CallsReact(t, m) ==
    \/ /\ t \in HandlerTasks
       /\ task[t].pc = "jitter" /\ task[t].m = m
       /\ task'[t].pc \notin {"jitter", "idle"}
    \/ /\ t = Main
       /\ mainpc \in {"fetch", "gap"} /\ mainpc' \in {"dispatch", "gap"}
       /\ task'[t].m = m /\ task'[t].pc # "idle"
       /\ (mainpc = "gap" => hist' # hist)

RepeatedDispatchNoOp ==
    [][\A t \in Tasks : \A m \in processed_messages :
          CallsReact(t, m) =>
              /\ task'[t] = RetFrame(m)
              /\ \A u \in Tasks \ {t} : task'[u] = task[u]
              /\ processed_messages' = processed_messages
              /\ entered' = entered]_vars

\* one handler invocation for a message has returned while the invocation
\* that claimed the message is still in its pause
RepeatedDispatchWitness ==
    \E m \in Msgs : \E s1, s2 \in Sessions :
        /\ task[<<s1, m>>].pc = "ret"
        /\ task[<<s2, m>>].pc = "pause"
        /\ task[<<s2, m>>].ci = 1

\* C9: the selection of a try never fails on a non-empty vocabulary: a try
\* is retried only after a failed submission, so a session whose
\* submissions all succeed submits its subset in its first try, with no
\* retry and no backoff.
SelectionTotal ==
    \A t \in Tasks :
        LET f == task[t] IN
        /\ f.retries > 0 => f.subs > f.oks
        /\ (f.pc = "acct" /\ f.subs = f.oks) =>
               /\ f.retries = 0 /\ f.slept = <<>>
               /\ f.subs \in 1..Min(2, Len(reactions))

\* C10: when the history iterator raises, the backlog pass ends, what was
\* processed stays processed, the ids not yet yielded are not dispatched,
\* and the handlers are registered and the wait entered.
RetrievalFailureContained ==
    retrievalFailed =>
        /\ backlogDone
        /\ mainpc \in {"live", "stop", "end"}
        /\ handlers = ClientSet
        /\ hist = <<>>
        /\ task[Main].pc \in {"idle", "ret"}
        /\ doneAtFail \subseteq processed_messages
        /\ skipped \cap processed_messages = {}

RetrievalFailureWitness ==
    /\ retrievalFailed /\ mainpc = "live"
    /\ doneAtFail # {} /\ skipped # {}
    /\ \E t \in HandlerTasks : task[t].pc = "jitter"

\* C13: run() goes through INIT, BACKFILL, LIVE, SHUTDOWN in this order,
\* enters BACKFILL at most once and only from INIT, never leaves LIVE for
\* BACKFILL, calls get_channel_id at most once, and ends only from SHUTDOWN.
Phase(pc) ==
    CASE pc \in {"load", "add"} -> 0
      [] pc \in {"fetch", "dispatch", "gap"} -> 1
      [] pc = "live" -> 2
      [] pc = "stop" -> 3
      [] pc = "end" -> 4

PhaseOrder ==
    /\ [](resolves <= 1)
    /\ [][/\ Phase(mainpc') >= Phase(mainpc)
          /\ (mainpc' = "fetch" /\ mainpc # "fetch") => Phase(mainpc) = 0
          /\ Phase(mainpc) = 2 => Phase(mainpc') \in {2, 3}
          /\ (mainpc' = "end" /\ mainpc # "end") => mainpc = "stop"
          /\ resolves' # resolves => (resolves = 0 /\ Phase(mainpc) = 0)]_vars

\* a run that went through the four phases and ended
PhaseOrderWitness ==
    /\ mainpc = "end" /\ backlogDone /\ resolves = 1
    /\ processed_messages # {} /\ posts = 1

\* C14: when the history iterator does not raise, the backlog pass calls
\* react_to_message for the fetched ids in the order fetched, each call
\* after the previous one has returned and the 5-8 s sleep was taken, each
\* id once, and when the pass ends processed_messages is exactly the set of
\* the fetched ids.
Dispatched == SubSeq(fetched, 1, Len(fetched) - Len(hist))

BacklogPassResult ==
    /\ [](mainpc \in {"dispatch", "gap"} =>
             /\ Len(fetched) <= HistoryLimit
             /\ processed_messages = SeqSet(Dispatched)
             /\ \A m \in processed_messages : entered[m] = 1
             /\ task[Main].m = Dispatched[Len(Dispatched)])
    /\ [][(mainpc \in {"fetch", "gap"} /\ processed_messages' # processed_messages) =>
             /\ task[Main].pc \in {"idle", "ret"}
             /\ processed_messages' =
                   processed_messages \cup
                       {fetched'[Cardinality(processed_messages) + 1]}]_vars
    /\ [][(~backlogDone /\ backlogDone' /\ ~retrievalFailed') =>
             /\ mainpc \in {"fetch", "gap"}
             /\ task[Main].pc \in {"idle", "ret"}
             /\ processed_messages' = SeqSet(fetched')
             /\ \A m \in SeqSet(fetched') : entered'[m] = 1]_vars

\* the pass over two fetched messages has ended without an error
BacklogPassWitness ==
    /\ backlogDone /\ ~retrievalFailed /\ mainpc = "live"
    /\ fetched = <<2, 1>> /\ processed_messages = {1, 2}

\* C15: an id is in processed_messages before the first submission for it
\* and stays there for the rest of the run, also when every session
\* exhausted its retries; an id in processed_messages never enters the
\* reaction loop again.
ClaimedBeforeSubmission ==
    /\ [](\A t \in Tasks :
             task[t].pc \in {"send", "pause", "backoff", "acct"} =>
                 task[t].m \in processed_messages)
    /\ [][/\ processed_messages \subseteq processed_messages'
          /\ \A m \in Msgs :
                entered'[m] # entered[m] =>
                    m \notin processed_messages /\ m \in processed_messages']_vars

\* every session has exhausted its retries for a message, whose id stays
\* claimed while the pass has gone on to the next message
ClaimedWitness ==
    /\ Len(clients) = 2
    /\ task[Main].pc = "acct" /\ task[Main].ci = 2
    /\ task[Main].served = <<"failed", "failed">>
    /\ Cardinality(processed_messages) = 2

\* C16: a failed submission ends its try (no further reaction of the subset
\* is submitted, the next try draws a new subset), and a try whose
\* submissions all succeeded is the session's last: a session that succeeds
\* after k < 3 failed tries gets exactly k + 1 tries.
TryDiscipline ==
    /\ [](\A t \in Tasks :
             LET f == task[t] IN
             f.pc = "acct" =>
                 IF f.served[f.ci] = "ok"
                 THEN f.tries = f.retries + 1 /\ f.retries < 3
                      /\ f.idx = Len(f.sel)
                 ELSE f.tries = 3 /\ f.retries = 3)
    /\ [][\A t \in Tasks :
             LET f == task[t]
                 g == task'[t]
             IN  (g # f /\ g.pc # "idle") =>
                 /\ f.pc = "send" =>
                       \/ /\ g.pc = "pause"
                          /\ g.oks = f.oks + 1 /\ g.subs = f.subs
                       \/ /\ g.pc \in {"backoff", "acct"}
                          /\ g.retries = f.retries + 1
                          /\ g.oks = f.oks /\ g.subs = f.subs
                 /\ f.pc = "backoff" =>
                       /\ g.tries = f.tries + 1
                       /\ \/ g.pc = "send" /\ g.idx = 1 /\ g.subs = f.subs + 1
                          \/ g.pc \in {"backoff", "acct"} /\ g.subs = f.subs]_vars

\* a session has succeeded in its third try
TryDisciplineWitness ==
    \E t \in Tasks :
        /\ task[t].pc = "acct" /\ task[t].served[task[t].ci] = "ok"
        /\ task[t].retries = 2 /\ task[t].tries = 3

\* C17: within one call the sessions are served in the order of
\* self.clients: a submission through the next session is issued only from
\* the 4-7 s sleep of the session before it, and every session that ends
\* (succeeded or exhausted) goes into that sleep.
SessionsInOrder ==
    [][\A t \in Tasks :
          LET f == task[t]
              g == task'[t]
          IN  (g # f /\ g.pc \in {"send", "pause", "backoff", "acct"}) =>
              /\ g.ci # f.ci =>
                    \/ f.pc = "acct" /\ g.ci = f.ci + 1 /\ g.m = f.m
                    \/ f.pc \in {"idle", "jitter", "ret"} /\ g.ci = 1
              /\ Len(g.served) # Len(f.served) =>
                    /\ g.pc = "acct" /\ g.ci = f.ci /\ g.m = f.m
                    /\ g.served = Append(f.served, g.served[g.ci])
              /\ g.pc = "acct" => Len(g.served) = g.ci]_vars

\* the second session is submitting after the first one exhausted its
\* retries and slept
SessionsInOrderWitness ==
    \E t \in Tasks :
        /\ task[t].pc = "send" /\ task[t].ci = 2
        /\ task[t].served = <<"failed">>

\* C18: between two consecutive send_reaction calls of one
\* react_to_message call there is a sleep: a call is issued from the 2-4 s
\* sleep, from a backoff sleep or from the 4-7 s sleep, never straight from
\* the return or the failure of the call before it.
PacingNeverSkipped ==
    [][\A t \in Tasks :
          LET f == task[t]
              g == task'[t]
          IN  (g # f /\ g.pc = "send") =>
              \/ f.pc \in {"pause", "backoff", "acct"} /\ g.m = f.m
              \/ f.pc \in {"idle", "jitter", "ret"} /\ g.ci = 1 /\ g.subs = 1]_vars

\* a second submission was issued after the first one failed
PacingWitness ==
    \E t \in Tasks :
        /\ task[t].pc = "send" /\ task[t].subs = 2 /\ task[t].oks = 0
        /\ task[t].slept = <<5>>

\* C19: one session issues at most 3 x min(2, |vocabulary|) send_reaction
\* calls (at most 6) and takes at most 2 backoff sleeps for one message.
BoundedWork ==
    \A t \in Tasks :
        /\ task[t].subs <= 3 * Min(2, Len(reactions))
        /\ task[t].subs <= 6
        /\ Len(task[t].slept) <= 2
        /\ task[t].tries <= 3

\* a session has issued six calls and slept twice
BoundedWorkWitness ==
    \E t \in Tasks : task[t].subs = 6 /\ Len(task[t].slept) = 2

\* C20: a message posted while process_old_messages is running starts no
\* handler, and unless the history iterator returned its id it never
\* enters processed_messages.
NotQueued ==
    \A m \in early :
        /\ \A s \in Sessions : task[<<s, m>>].pc = "idle"
        /\ m \notin SeqSet(fetched) =>
               m \notin processed_messages /\ entered[m] = 0

\* the run has ended with a message posted during the backlog pass that
\* was never dispatched, while a fetched message was
NotQueuedWitness ==
    /\ mainpc = "end" /\ backlogDone
    /\ \E m \in early : m \notin SeqSet(fetched) /\ m \notin processed_messages
    /\ processed_messages # {}

\* C11 as stated: react_to_message, once in its loop, always returns to
\* its caller.
InDispatch(t) == task[t].pc \in {"send", "pause", "backoff", "acct"}

DispatchAlwaysReturns ==
    \A t \in Tasks : InDispatch(t) ~> (task[t].pc = "ret")

\* C11, amended: react_to_message never leaves its loop through an
\* exception of send_reaction; it returns only after the 4-7 s sleep of the
\* last session, with every session served, and it does return unless the
\* coroutine is cancelled because run() was interrupted or has ended.
Cancelled(t) ==
    task'[t].pc = "idle" /\ (mainpc' = "end" \/ (t = Main /\ mainpc' = "stop"))

DispatchFinishes ==
    /\ \A t \in Tasks : InDispatch(t) ~> (task[t].pc \in {"ret", "idle"})
    /\ [][\A t \in Tasks :
             LET f == task[t]
                 g == task'[t]
             IN  (InDispatch(t) /\ g # f) =>
                 \/ /\ g.pc \in {"send", "pause", "backoff", "acct"}
                    /\ g.m = f.m
                 \/ /\ g.pc = "ret" /\ g.m = f.m
                    /\ f.pc = "acct" /\ f.ci = Len(clients)
                    /\ Len(f.served) = Len(clients)
                 \/ Cancelled(t)]_vars

\* the backlog loop has its call back, with two sessions registered
DispatchFinishesWitness ==
    /\ mainpc = "gap" /\ task[Main].pc = "ret"
    /\ Len(clients) = 2 /\ task[Main].m \in processed_messages

\* C12 as stated: every message delivered to a handler is marked processed
\* and its react_to_message call returns.
EveryDeliveryCompletes ==
    \A t \in HandlerTasks :
        (task[t].pc = "jitter") ~>
            (t[2] \in processed_messages /\ task[t].pc = "ret")

\* C12, amended: whatever the handlers already running are doing, a message
\* posted in the live phase starts the handler of every subscribed session,
\* and that handler can go on when its 1-3 s sleep ends; under a fair event
\* loop the message is marked processed and the handler's call returns,
\* unless run() ends first and the handler is cancelled.
LiveIndependence ==
    /\ [](\A t \in HandlerTasks :
             (task[t].pc = "jitter" /\ mainpc # "end") => ENABLED WakeJitter(t))
    /\ [][(chan' # chan /\ mainpc = "live") =>
             \A s \in handlers \ stopCalled :
                 /\ task'[<<s, chan'>>] = JitterFrame(chan')
                 /\ \A m \in Msgs : m # chan' => task'[<<s, m>>] = task[<<s, m>>]]_vars
    /\ [][\A t \in HandlerTasks :
             (task[t].pc # "idle" /\ task'[t].pc = "idle") => mainpc' = "end"]_vars
    /\ \A t \in HandlerTasks :
          (task[t].pc = "jitter") ~>
              \/ t[2] \in processed_messages /\ task[t].pc = "ret"
              \/ task[t].pc = "idle"

\* the handler for the second live message has returned while the one for
\* the first is in a backoff sleep
LiveIndependenceWitness ==
    \E s \in Sessions : \E m \in Msgs :
        /\ m + 1 \in Msgs
        /\ task[<<s, m>>].pc = "backoff"
        /\ task[<<s, m + 1>>].pc = "ret"
        /\ {m, m + 1} \subseteq processed_messages

====
